---- MODULE Spec2Model ----
(***************************************************************************)
(* Verification model of the Cartesian <-> Frenet converter                *)
(* (modules/planning/math/frame_conversion/cartesian_frenet_conversion.cc) *)
(* and of the Reeds-Shepp path test                                        *)
(* (modules/planning/open_space/reeds_shepp_path_test.cc).                 *)
(*                                                                         *)
(* A double is modelled by an exact rational [n, d] (d > 0, lowest terms). *)
(* An angle is modelled by the rational point (c, s) = (cos, sin) on the   *)
(* unit circle together with a winding number w: the angle is              *)
(* atan2(s, c) + 2*pi*w with atan2 in (-pi, pi].  std::sqrt and std::atan2 *)
(* are exact on the inputs the model draws (perfect rational squares);     *)
(* rounding error of the floating-point unit is not modelled.              *)
(***************************************************************************)
EXTENDS Integers, Sequences, FiniteSets, TLC

\* ------------------------------------------------------------------------
\* double arithmetic, exact
\* ------------------------------------------------------------------------
IAbs(i) == IF i < 0 THEN -i ELSE i

RECURSIVE IGcd(_, _)
IGcd(a, b) == IF b = 0 THEN a ELSE IGcd(b, a % b)

\* the double n/d
Rat(n, d) ==
  LET g == IGcd(IAbs(n), IAbs(d))
      sg == IF d < 0 THEN -1 ELSE 1
  IN  [n |-> sg * (n \div g), d |-> sg * (d \div g)]

R(i) == [n |-> i, d |-> 1]

RAdd(a, b) ==
  LET g == IGcd(a.d, b.d)
  IN  Rat(a.n * (b.d \div g) + b.n * (a.d \div g), (a.d \div g) * b.d)
RNeg(a) == [n |-> -a.n, d |-> a.d]
RSub(a, b) == RAdd(a, RNeg(b))
RMul(a, b) ==
  LET g1 == IGcd(IAbs(a.n), b.d)
      g2 == IGcd(IAbs(b.n), a.d)
  IN  IF a.n = 0 \/ b.n = 0 THEN R(0)
      ELSE [n |-> (a.n \div g1) * (b.n \div g2), d |-> (a.d \div g2) * (b.d \div g1)]
RInv(a) == IF a.n < 0 THEN [n |-> -a.d, d |-> -a.n] ELSE [n |-> a.d, d |-> a.n]
RDiv(a, b) == RMul(a, RInv(b))
RAbs(a) == [n |-> IAbs(a.n), d |-> a.d]
RSq(a) == RMul(a, a)
RSign(a) == IF a.n > 0 THEN 1 ELSE IF a.n < 0 THEN -1 ELSE 0

\* the order of p/q and r/s (p, r >= 0; q, s > 0) as -1, 0 or 1, by comparing
\* the integer parts and then the inverted remainders
RECURSIVE ICompare(_, _, _, _)
ICompare(p, q, r, s) ==
  IF p \div q # r \div s THEN (IF p \div q < r \div s THEN -1 ELSE 1)
  ELSE IF p % q = 0 /\ r % s = 0 THEN 0
  ELSE IF p % q = 0 THEN -1
  ELSE IF r % s = 0 THEN 1
  ELSE -ICompare(q, p % q, s, r % s)
RCompare(a, b) ==
  IF RSign(a) # RSign(b) THEN (IF RSign(a) < RSign(b) THEN -1 ELSE 1)
  ELSE IF RSign(a) = 0 THEN 0
  ELSE IF RSign(a) > 0 THEN ICompare(a.n, a.d, b.n, b.d)
  ELSE ICompare(-b.n, b.d, -a.n, a.d)
RLess(a, b) == RCompare(a, b) < 0
RLeq(a, b) == RCompare(a, b) <= 0

\* floor of the integer square root, by bisection
RECURSIVE ISqrtIn(_, _, _)
ISqrtIn(n, lo, hi) ==
  IF lo >= hi THEN lo
  ELSE LET mid == (lo + hi + 1) \div 2
       IN  IF mid * mid <= n THEN ISqrtIn(n, mid, hi) ELSE ISqrtIn(n, lo, mid - 1)
ISqrt(n) == ISqrtIn(n, 0, IF n < 46340 THEN n ELSE 46340)
IIsSquare(n) == n >= 0 /\ ISqrt(n) * ISqrt(n) = n

\* std::sqrt, on the doubles whose root is a double of the model
RIsSquare(a) == IIsSquare(a.n) /\ IIsSquare(a.d)
RSqrt(a) == [n |-> ISqrt(a.n), d |-> ISqrt(a.d)]

\* std::copysign(mag, sgn): a zero sign argument is +0.0 here
CopySign(mag, sgn) == IF sgn.n < 0 THEN RNeg(RAbs(mag)) ELSE RAbs(mag)

\* ------------------------------------------------------------------------
\* angles and trigonometry
\* ------------------------------------------------------------------------
Angle(c, s, w) == [c |-> c, s |-> s, w |-> w]
IsPi(a) == a.c = R(-1) /\ a.s = R(0)

\* principal values p, q in (-pi, pi]: p + q leaves (-pi, pi] upward (+1),
\* downward (-1) or not at all (0)
Carry(a, b) ==
  LET upA == a.s.n > 0 \/ IsPi(a)
      upB == b.s.n > 0 \/ IsPi(b)
      dnA == a.s.n < 0
      dnB == b.s.n < 0
      sumc == RAdd(a.c, b.c)
  IN  IF upA /\ upB /\ sumc.n < 0 THEN 1
      ELSE IF dnA /\ dnB /\ sumc.n <= 0 THEN -1
      ELSE 0

\* a + b on doubles holding angles
AngleAdd(a, b) ==
  Angle(RSub(RMul(a.c, b.c), RMul(a.s, b.s)),
        RAdd(RMul(a.s, b.c), RMul(a.c, b.s)),
        a.w + b.w + Carry(a, b))
AngleNeg(a) == IF IsPi(a) THEN Angle(a.c, a.s, -a.w - 1) ELSE Angle(a.c, RNeg(a.s), -a.w)
\* a - b on doubles holding angles
AngleSub(a, b) == AngleAdd(a, AngleNeg(b))

Cos(a) == a.c
Sin(a) == a.s
\* std::tan, away from its poles
Tan(a) == RDiv(a.s, a.c)

\* std::atan2(y, x), where hypot(x, y) is a double of the model
Atan2Defined(y, x) == RIsSquare(RAdd(RSq(x), RSq(y)))
Atan2(y, x) ==
  LET r == RSqrt(RAdd(RSq(x), RSq(y)))
  IN  IF r.n = 0 THEN Angle(R(1), R(0), 0)
      ELSE Angle(RDiv(x, r), RDiv(y, r), 0)

\* common::math::NormalizeAngle: the representative in (-pi, pi]
NormalizeAngle(a) == Angle(a.c, a.s, 0)

SameDirection(a, b) == a.c = b.c /\ a.s = b.s

\* ------------------------------------------------------------------------
\* CartesianFrenetConverter
\* ------------------------------------------------------------------------
\* The automatic variables of a conversion that live across statements that
\* write an output, and the output locations of a call: s and d are
\* *ptr_s_condition and *ptr_d_condition, out holds *ptr_x .. *ptr_a and wr
\* the names of the outputs of frenet_to_cartesian written so far.
ZeroFrame ==
  [cos_theta_r |-> R(0), one_minus_kappa_r_d |-> R(0), tan_delta_theta |-> R(0),
   cos_delta_theta |-> R(0), kappa_r_d_prime |-> R(0), denominator |-> R(0)]
ZeroAngle == Angle(R(1), R(0), 0)
ZeroOut ==
  [x |-> R(0), y |-> R(0), theta |-> ZeroAngle, kappa |-> R(0), v |-> R(0), a |-> R(0)]
ZeroCond == <<R(0), R(0), R(0)>>
FreshCall ==
  [fr |-> ZeroFrame, s |-> ZeroCond, d |-> ZeroCond, out |-> ZeroOut, wr |-> {},
   ret |-> R(0)]

\* lines 39-47 with the distance left unsigned (std::copysign dropped)
C2F_1_Unsigned(a, st) ==
  LET dx == RSub(a.x, a.rx)
      dy == RSub(a.y, a.ry)
  IN  [st EXCEPT !.d[1] = RSqrt(RAdd(RSq(dx), RSq(dy)))]

\* cartesian_to_frenet, lines 39-47: d_condition[0]
C2F_1(a, st) ==
  LET dx == RSub(a.x, a.rx)
      dy == RSub(a.y, a.ry)
      cos_theta_r == Cos(a.rtheta)
      sin_theta_r == Sin(a.rtheta)
      cross_rd_nd == RSub(RMul(cos_theta_r, dy), RMul(sin_theta_r, dx))
  IN  [st EXCEPT !.d[1] = CopySign(RSqrt(RAdd(RSq(dx), RSq(dy))), cross_rd_nd)]

\* lines 49-54: d_condition[1]
C2F_2(a, st) ==
  LET delta_theta == AngleSub(a.theta, a.rtheta)
      tan_delta_theta == Tan(delta_theta)
      cos_delta_theta == Cos(delta_theta)
      one_minus_kappa_r_d == RSub(R(1), RMul(a.rkappa, st.d[1]))
  IN  [st EXCEPT !.fr.tan_delta_theta = tan_delta_theta,
                 !.fr.cos_delta_theta = cos_delta_theta,
                 !.fr.one_minus_kappa_r_d = one_minus_kappa_r_d,
                 !.d[2] = RMul(one_minus_kappa_r_d, tan_delta_theta)]

\* lines 56-62: d_condition[2]
C2F_3(a, st) ==
  LET f == st.fr
      kappa_r_d_prime == RAdd(RMul(a.rdkappa, st.d[1]), RMul(a.rkappa, st.d[2]))
  IN  [st EXCEPT !.fr.kappa_r_d_prime = kappa_r_d_prime,
                 !.d[3] =
                   RAdd(RMul(RNeg(kappa_r_d_prime), f.tan_delta_theta),
                        RMul(RDiv(RDiv(f.one_minus_kappa_r_d, f.cos_delta_theta),
                                  f.cos_delta_theta),
                             RSub(RDiv(RMul(a.kappa, f.one_minus_kappa_r_d),
                                       f.cos_delta_theta),
                                  a.rkappa)))]

\* line 64: s_condition[0]
C2F_4(a, st) == [st EXCEPT !.s[1] = a.rs]

\* line 66 without the division by 1 - rkappa * d
C2F_5_NoDivide(a, st) ==
  [st EXCEPT !.s[2] = RMul(a.v, st.fr.cos_delta_theta)]

\* line 66: s_condition[1]
C2F_5(a, st) ==
  [st EXCEPT !.s[2] =
     RDiv(RMul(a.v, st.fr.cos_delta_theta), st.fr.one_minus_kappa_r_d)]

\* lines 68-74: s_condition[2]
C2F_6(a, st) ==
  LET f == st.fr
      delta_theta_prime ==
        RSub(RMul(RDiv(f.one_minus_kappa_r_d, f.cos_delta_theta), a.kappa), a.rkappa)
  IN  [st EXCEPT !.s[3] =
         RDiv(RSub(RMul(a.a, f.cos_delta_theta),
                   RMul(RMul(st.s[2], st.s[2]),
                        RSub(RMul(st.d[2], delta_theta_prime), f.kappa_r_d_prime))),
              f.one_minus_kappa_r_d)]

C2FBlocks == 6
C2FBlock(k, a, st) ==
  CASE k = 1 -> C2F_1(a, st)
    [] k = 2 -> C2F_2(a, st)
    [] k = 3 -> C2F_3(a, st)
    [] k = 4 -> C2F_4(a, st)
    [] k = 5 -> C2F_5(a, st)
    [] k = 6 -> C2F_6(a, st)

\* the call as a whole, on the output locations st
cartesian_to_frenet(a, st) ==
  C2F_6(a, C2F_5(a, C2F_4(a, C2F_3(a, C2F_2(a, C2F_1(a, st))))))

\* the doubles of the call are doubles of the model: the distance is an exact
\* root, theta - rtheta is off the poles of tan, 1 - rkappa * d is not zero
C2FDefined(a) ==
  LET dx == RSub(a.x, a.rx)
      dy == RSub(a.y, a.ry)
  IN  /\ RIsSquare(RAdd(RSq(dx), RSq(dy)))
      /\ Cos(AngleSub(a.theta, a.rtheta)).n # 0
      /\ RSub(R(1), RMul(a.rkappa, C2F_1(a, FreshCall).d[1])).n # 0

\* frenet_to_cartesian, line 86: the CHECK
StationTolerance == Rat(1, 1000000)
StationsMatch(rs, s0) == RLess(RAbs(RSub(rs, s0)), StationTolerance)

\* lines 89-92 with the sign of the lateral offset slipped in *ptr_x
F2C_1_SignSlip(a, st) ==
  LET cos_theta_r == Cos(a.rtheta)
      sin_theta_r == Sin(a.rtheta)
  IN  [st EXCEPT !.fr.cos_theta_r = cos_theta_r,
                 !.out.x = RAdd(a.rx, RMul(sin_theta_r, a.d_condition[1])),
                 !.wr = @ \cup {"x"}]

\* lines 89-92: *ptr_x
F2C_1(a, st) ==
  LET cos_theta_r == Cos(a.rtheta)
      sin_theta_r == Sin(a.rtheta)
  IN  [st EXCEPT !.fr.cos_theta_r = cos_theta_r,
                 !.out.x = RSub(a.rx, RMul(sin_theta_r, a.d_condition[1])),
                 !.wr = @ \cup {"x"}]

\* line 93: *ptr_y
F2C_2(a, st) ==
  [st EXCEPT !.out.y = RAdd(a.ry, RMul(st.fr.cos_theta_r, a.d_condition[1])),
             !.wr = @ \cup {"y"}]

\* lines 95-101: *ptr_theta
F2C_3(a, st) ==
  LET one_minus_kappa_r_d == RSub(R(1), RMul(a.rkappa, a.d_condition[1]))
      tan_delta_theta == RDiv(a.d_condition[2], one_minus_kappa_r_d)
      delta_theta == Atan2(a.d_condition[2], one_minus_kappa_r_d)
      cos_delta_theta == Cos(delta_theta)
  IN  [st EXCEPT !.fr.one_minus_kappa_r_d = one_minus_kappa_r_d,
                 !.fr.tan_delta_theta = tan_delta_theta,
                 !.fr.cos_delta_theta = cos_delta_theta,
                 !.out.theta = NormalizeAngle(AngleAdd(delta_theta, a.rtheta)),
                 !.wr = @ \cup {"theta"}]

\* lines 103-108: *ptr_kappa
F2C_4(a, st) ==
  LET f == st.fr
      kappa_r_d_prime ==
        RAdd(RMul(a.rdkappa, a.d_condition[1]), RMul(a.rkappa, a.d_condition[2]))
  IN  [st EXCEPT !.fr.kappa_r_d_prime = kappa_r_d_prime,
                 !.out.kappa =
                   RDiv(RMul(RAdd(RDiv(RMul(RMul(RAdd(a.d_condition[3],
                                                      RMul(kappa_r_d_prime,
                                                           f.tan_delta_theta)),
                                                 f.cos_delta_theta),
                                            f.cos_delta_theta),
                                       f.one_minus_kappa_r_d),
                                  a.rkappa),
                             f.cos_delta_theta),
                        f.one_minus_kappa_r_d),
                 !.wr = @ \cup {"kappa"}]

\* lines 110-113: *ptr_v
F2C_5(a, st) ==
  LET f == st.fr
      d_dot == RMul(a.d_condition[2], a.s_condition[2])
  IN  [st EXCEPT !.out.v =
                   RSqrt(RAdd(RMul(RMul(RMul(f.one_minus_kappa_r_d,
                                             f.one_minus_kappa_r_d),
                                        a.s_condition[2]),
                                   a.s_condition[2]),
                              RMul(d_dot, d_dot))),
                 !.wr = @ \cup {"v"}]

\* lines 115-120: *ptr_a
F2C_6(a, st) ==
  LET f == st.fr
      delta_theta_prime ==
        RSub(RMul(RDiv(f.one_minus_kappa_r_d, f.cos_delta_theta), st.out.kappa),
             a.rkappa)
  IN  [st EXCEPT !.out.a =
                   RAdd(RDiv(RMul(a.s_condition[3], f.one_minus_kappa_r_d),
                             f.cos_delta_theta),
                        RMul(RDiv(RMul(a.s_condition[2], a.s_condition[2]),
                                  f.cos_delta_theta),
                             RSub(RMul(a.d_condition[2], delta_theta_prime),
                                  f.kappa_r_d_prime))),
                 !.wr = @ \cup {"a"}]

F2CBlocks == 6
F2CBlock(k, a, st) ==
  CASE k = 1 -> F2C_1(a, st)
    [] k = 2 -> F2C_2(a, st)
    [] k = 3 -> F2C_3(a, st)
    [] k = 4 -> F2C_4(a, st)
    [] k = 5 -> F2C_5(a, st)
    [] k = 6 -> F2C_6(a, st)

\* whether the CHECK of line 86 lets the call go on
F2CPasses(a) == StationsMatch(a.rs, a.s_condition[1])

\* the statements after the CHECK, on the output locations st
F2CBody(a, st) ==
  F2C_6(a, F2C_5(a, F2C_4(a, F2C_3(a, F2C_2(a, F2C_1(a, st))))))

\* the call with the CHECK placed after the position has been written
frenet_to_cartesian_LateCheck(a, st) ==
  IF F2CPasses(a) THEN F2CBody(a, st) ELSE F2C_2(a, F2C_1(a, st))

\* the call as a whole: a failed CHECK ends the process there, with the
\* output locations as they were
frenet_to_cartesian(a, st) == IF F2CPasses(a) THEN F2CBody(a, st) ELSE st

\* the doubles of the call are doubles of the model
F2CDefined(a) ==
  LET one_minus_kappa_r_d == RSub(R(1), RMul(a.rkappa, a.d_condition[1]))
  IN  /\ one_minus_kappa_r_d.n # 0
      /\ Atan2Defined(a.d_condition[2], one_minus_kappa_r_d)

\* ------------------------------------------------------------------------
\* the Calculate* helpers
\* ------------------------------------------------------------------------
\* Double::Compare(d1, d2, epsilon): 0 when d1 and d2 are nearer than epsilon
DoubleCompare(d1, d2, epsilon) ==
  IF RLess(RAbs(RSub(d1, d2)), epsilon) THEN 0
  ELSE IF RLess(d2, d1) THEN 1 ELSE -1

CalculateTheta(rtheta, rkappa, l, dl) ==
  NormalizeAngle(AngleAdd(rtheta, Atan2(dl, RSub(R(1), RMul(l, rkappa)))))

KappaEpsilon == Rat(1, 100000000)

\* lines 136-139 with the guard four decades too wide
Kappa_1_WideGuard(a, st) ==
  LET denominator ==
        RAdd(RMul(a.dl, a.dl),
             RMul(RSub(R(1), RMul(a.l, a.rkappa)), RSub(R(1), RMul(a.l, a.rkappa))))
  IN  IF DoubleCompare(denominator, R(0), Rat(1, 10000)) = 0
      THEN [st EXCEPT !.fr.denominator = denominator, !.ret = R(0), !.wr = {"ret"}]
      ELSE [st EXCEPT !.fr.denominator = denominator]

\* CalculateKappa, lines 136-139: the denominator and its guard; ret is the
\* value returned, wr says whether the call has returned
Kappa_1(a, st) ==
  LET denominator ==
        RAdd(RMul(a.dl, a.dl),
             RMul(RSub(R(1), RMul(a.l, a.rkappa)), RSub(R(1), RMul(a.l, a.rkappa))))
  IN  IF DoubleCompare(denominator, R(0), KappaEpsilon) = 0
      THEN [st EXCEPT !.fr.denominator = denominator, !.ret = R(0), !.wr = {"ret"}]
      ELSE [st EXCEPT !.fr.denominator = denominator]

\* lines 140-145: std::pow(denominator, 1.5), the numerator, the quotient
Kappa_2(a, st) ==
  LET denominator == RMul(st.fr.denominator, RSqrt(st.fr.denominator))
      numerator ==
        RAdd(RAdd(RAdd(RSub(RSub(RAdd(a.rkappa, a.ddl),
                                 RMul(RMul(RMul(R(2), a.l), a.rkappa), a.rkappa)),
                            RMul(RMul(a.l, a.ddl), a.rkappa)),
                       RMul(RMul(RMul(RMul(a.l, a.l), a.rkappa), a.rkappa), a.rkappa)),
                  RMul(RMul(a.l, a.dl), a.rdkappa)),
             RMul(RMul(RMul(R(2), a.dl), a.dl), a.rkappa))
  IN  [st EXCEPT !.fr.denominator = denominator,
                 !.ret = RDiv(numerator, denominator),
                 !.wr = {"ret"}]

KappaBlocks == 2
KappaBlock(k, a, st) ==
  CASE k = 1 -> Kappa_1(a, st)
    [] k = 2 -> IF st.wr = {} THEN Kappa_2(a, st) ELSE st

CalculateKappa(rkappa, rdkappa, l, dl, ddl) ==
  LET a == [rkappa |-> rkappa, rdkappa |-> rdkappa, l |-> l, dl |-> dl, ddl |-> ddl]
  IN  KappaBlock(2, a, KappaBlock(1, a, FreshCall)).ret

\* the doubles of the call are doubles of the model: a denominator past the
\* guard has an exact root and a 1.5th power within the integer width
KappaDenominator(a) ==
  RAdd(RSq(a.dl), RSq(RSub(R(1), RMul(a.l, a.rkappa))))
KappaDefined(a) ==
  \/ RLess(KappaDenominator(a), KappaEpsilon)
  \/ RIsSquare(KappaDenominator(a)) /\ KappaDenominator(a).d <= 1000000

CalculateCartesianPoint(rtheta, rpoint, l) ==
  LET x == RSub(rpoint[1], RMul(l, Sin(rtheta)))
      y == RAdd(rpoint[2], RMul(l, Cos(rtheta)))
  IN  <<x, y>>

CalculateLateralDerivative(rtheta, theta, l, rkappa) ==
  RMul(RSub(R(1), RMul(rkappa, l)), Tan(AngleSub(theta, rtheta)))

CalculateSecondOrderLateralDerivative(rtheta, theta, rkappa, kappa, rdkappa, l) ==
  LET dl == CalculateLateralDerivative(rtheta, theta, l, rkappa)
      theta_diff == AngleSub(theta, rtheta)
      cos_theta_diff == Cos(theta_diff)
  IN  RAdd(RMul(RNeg(RAdd(RMul(rdkappa, l), RMul(rkappa, dl))),
                Tan(AngleSub(theta, rtheta))),
           RMul(RDiv(RSub(R(1), RMul(rkappa, l)), RMul(cos_theta_diff, cos_theta_diff)),
                RSub(RDiv(RMul(kappa, RSub(R(1), RMul(rkappa, l))), cos_theta_diff),
                     rkappa)))

\* ------------------------------------------------------------------------
\* state
\* ------------------------------------------------------------------------
VARIABLES
  ref,      \* the ReferenceSample the conversions are called with
  orig,     \* the state the first conversion is called with
  cur,      \* the output locations of the conversions, as last written
  hist,     \* the conversions called so far, in order
  status,   \* "ok", or "aborted" once a CHECK has failed
  helper,   \* the call of a Calculate* helper made: its name, arguments, result
  cargs,    \* concurrent calls: the function and the arguments of each
  cpc,      \* concurrent calls: the statements each has executed
  frames,   \* concurrent calls: the automatic variables, by activation record
  obuf,     \* concurrent calls: the output locations of each
  rsStart,  \* Reeds-Shepp test: the start pose
  rsEnd,    \* Reeds-Shepp test: the end pose
  rsRadius, \* Reeds-Shepp test: the turning radius
  catalog,  \* what each (family, transform) combination yields for the poses
  tpc,      \* the statement of the test that runs next
  rsOk,     \* what ShortestRSP returned
  chosen,   \* the catalog entry ShortestRSP chose, 0 for none
  optimal_path, \* the ReedSheppPath handed to ShortestRSP: its samples
  logged,   \* whether the failure was logged
  validated, \* the assertions of check() evaluated so far
  idx,      \* the loop variable i of check()
  verdict   \* "running", "passed", "failed" or "crashed"

convVars == <<ref, orig, cur, hist, status>>
helperVars == <<helper>>
concVars == <<cargs, cpc, frames, obuf>>
rsInputs == <<rsStart, rsEnd, rsRadius, catalog>>
rsVars ==
  <<rsStart, rsEnd, rsRadius, catalog, tpc, rsOk, chosen, optimal_path, logged,
    validated, idx, verdict>>
vars == <<convVars, helperVars, concVars, rsVars>>

NoHelper == [fn |-> "none", args |-> <<>>, result |-> R(0)]
ConvIdle ==
  /\ ref = [rs |-> R(0), rx |-> R(0), ry |-> R(0), rtheta |-> ZeroAngle,
            rkappa |-> R(0), rdkappa |-> R(0)]
  /\ orig = [kind |-> "none", s |-> ZeroCond, d |-> ZeroCond, c |-> ZeroOut]
  /\ cur = FreshCall
  /\ hist = <<>>
  /\ status = "ok"
HelperIdle == helper = NoHelper
ConcIdle == cargs = <<>> /\ cpc = <<>> /\ frames = <<>> /\ obuf = <<>>
RsIdle ==
  /\ rsStart = <<>> /\ rsEnd = <<>> /\ rsRadius = R(0) /\ catalog = <<>>
  /\ tpc = "idle" /\ rsOk = FALSE /\ chosen = 0 /\ optimal_path = <<>>
  /\ logged = FALSE /\ validated = {} /\ idx = 0 /\ verdict = "running"

\* ------------------------------------------------------------------------
\* a caller that converts a state forth and back
\* ------------------------------------------------------------------------
MaxCalls == 2

Last(q) == q[Len(q)]

RefDirections ==
  {Angle(R(1), R(0), 0), Angle(Rat(3, 5), Rat(4, 5), 0), Angle(R(-1), R(0), 0),
   Angle(Rat(4, 5), Rat(-3, 5), 0)}
RefSamples ==
  [rs : {R(3)}, rx : {R(1)}, ry : {R(-2)}, rtheta : RefDirections,
   rkappa : {R(0), Rat(1, 2)}, rdkappa : {R(0), Rat(1, 4)}]

\* stations around the reference station: equal, nearer than 1e-6, at 1e-6,
\* farther than 1e-6 on either side
StationOffsets ==
  {R(0), Rat(5, 10000000), Rat(1, 1000000), Rat(2, 1000000), Rat(-2, 1000000)}

FrenetInputs(r) ==
  {f \in [s : {<<RAdd(r.rs, o), s1, s2>> :
                  o \in StationOffsets, s1 \in {R(2), R(0), R(-2)}, s2 \in {R(0), R(1)}},
          d : {<<d0, d1, d2>> :
                  d0 \in {R(0), R(1), R(-1), R(4)},
                  d1 \in {R(0), Rat(3, 4), Rat(-3, 4), Rat(3, 8), R(2), Rat(-4, 3)},
                  d2 \in {R(0), R(1)}}] :
     LET omk == RSub(R(1), RMul(r.rkappa, f.d[1]))
     IN  omk.n # 0 /\ Atan2Defined(f.d[2], omk)}

\* the point ref + t * tangent + n * normal
PointAt(r, t, n) ==
  [x |-> RAdd(r.rx, RSub(RMul(t, Cos(r.rtheta)), RMul(n, Sin(r.rtheta)))),
   y |-> RAdd(r.ry, RAdd(RMul(t, Sin(r.rtheta)), RMul(n, Cos(r.rtheta))))]

PointOffsets ==
  {<<R(0), R(0)>>, <<R(0), R(1)>>, <<R(0), R(-1)>>, <<R(0), R(4)>>,
   <<R(3), R(4)>>, <<R(3), R(-4)>>, <<R(3), R(0)>>, <<R(-3), R(0)>>}
HeadingOffsets ==
  {Angle(R(1), R(0), 0), Angle(Rat(3, 5), Rat(4, 5), 0), Angle(Rat(-3, 5), Rat(4, 5), 0),
   Angle(Rat(4, 5), Rat(-3, 5), 1)}

CartesianInputs(r) ==
  {[x |-> PointAt(r, tn[1], tn[2]).x, y |-> PointAt(r, tn[1], tn[2]).y,
    theta |-> AngleAdd(r.rtheta, h), kappa |-> k, v |-> v, a |-> acc] :
      tn \in PointOffsets, h \in HeadingOffsets, k \in {R(0), Rat(1, 3)},
      v \in {R(2), R(0), R(-2)}, acc \in {R(0), R(1)}}

F2CArgs(r, s, d) ==
  [rs |-> r.rs, rx |-> r.rx, ry |-> r.ry, rtheta |-> r.rtheta, rkappa |-> r.rkappa,
   rdkappa |-> r.rdkappa, s_condition |-> s, d_condition |-> d]
C2FArgs(r, c) ==
  [rs |-> r.rs, rx |-> r.rx, ry |-> r.ry, rtheta |-> r.rtheta, rkappa |-> r.rkappa,
   rdkappa |-> r.rdkappa, x |-> c.x, y |-> c.y, v |-> c.v, a |-> c.a,
   theta |-> c.theta, kappa |-> c.kappa]

ConvInit ==
  /\ ref \in RefSamples
  /\ \/ \E f \in FrenetInputs(ref) :
          orig = [kind |-> "frenet", s |-> f.s, d |-> f.d, c |-> ZeroOut]
     \/ \E c \in CartesianInputs(ref) :
          /\ C2FDefined(C2FArgs(ref, c))
          /\ orig = [kind |-> "cartesian", s |-> ZeroCond, d |-> ZeroCond, c |-> c]
  /\ cur = [FreshCall EXCEPT !.s = orig.s, !.d = orig.d, !.out = orig.c]
  /\ hist = <<>>
  /\ status = "ok"
  /\ HelperIdle
  /\ ConcIdle
  /\ RsIdle

\* the caller runs frenet_to_cartesian on the Frenet state it holds
FrenetToCartesianCall ==
  /\ status = "ok"
  /\ Len(hist) < MaxCalls
  /\ IF hist = <<>> THEN orig.kind = "frenet" ELSE Last(hist) = "c2f"
  /\ LET a == F2CArgs(ref, cur.s, cur.d)
         st == frenet_to_cartesian(a, [cur EXCEPT !.fr = ZeroFrame, !.wr = {}])
     IN  /\ F2CPasses(a) => F2CDefined(a)
         /\ cur' = [st EXCEPT !.fr = ZeroFrame]
         /\ status' = IF F2CPasses(a) THEN "ok" ELSE "aborted"
  /\ hist' = Append(hist, "f2c")
  /\ UNCHANGED <<ref, orig, helperVars, concVars, rsVars>>

\* the caller runs cartesian_to_frenet on the Cartesian state it holds
CartesianToFrenetCall ==
  /\ status = "ok"
  /\ Len(hist) < MaxCalls
  /\ IF hist = <<>> THEN orig.kind = "cartesian" ELSE Last(hist) = "f2c"
  /\ LET a == C2FArgs(ref, cur.out)
         st == cartesian_to_frenet(a, [cur EXCEPT !.fr = ZeroFrame])
     IN  /\ C2FDefined(a)
         /\ cur' = [st EXCEPT !.fr = ZeroFrame]
  /\ hist' = Append(hist, "c2f")
  /\ UNCHANGED <<ref, orig, status, helperVars, concVars, rsVars>>

ConvNext == FrenetToCartesianCall \/ CartesianToFrenetCall
SpecConv == ConvInit /\ [][ConvNext]_vars

\* ------------------------------------------------------------------------
\* claims about the conversions
\* ------------------------------------------------------------------------
Tol6 == Rat(1, 1000000)
Within6(a, b) == RLess(RAbs(RSub(a, b)), Tol6)
AllOutputs == {"x", "y", "theta", "kappa", "v", "a"}

StationGap == RAbs(RSub(ref.rs, orig.s[1]))

\* C1: frenet_to_cartesian called with a reference station more than 1e-6
\* away from s_condition[0] aborts and writes none of its six outputs; called
\* with a station nearer than 1e-6 it does not abort and writes all six.
C1_StationCheckAborts ==
  /\ status = "aborted" => cur.wr = {} /\ cur.out = orig.c
  /\ hist = <<"f2c">> =>
       /\ RLess(Tol6, StationGap) => status = "aborted"
       /\ RLess(StationGap, Tol6) => status = "ok" /\ cur.wr = AllOutputs

C1_Witness ==
  /\ hist = <<"f2c">>
  /\ RLess(Tol6, StationGap)
  /\ status = "aborted"
  /\ cur.wr = {}

RoundTripDone == hist = <<"f2c", "c2f">>

\* C2, as claimed: the round trip Frenet -> Cartesian -> Frenet returns all
\* six components within 1e-6, for either sign of s1 and of 1 - rkappa * d0.
C2_RoundTripAnyGear ==
  RoundTripDone =>
    \A i \in 1..3 : Within6(cur.s[i], orig.s[i]) /\ Within6(cur.d[i], orig.d[i])

\* C2, amended: the round trip returns s0, s2, d0, d1 and d2 within 1e-6 for
\* either sign of 1 - rkappa * d0, and returns |s1| for s1: all six components
\* agree exactly when s1 >= 0.
C2_RoundTripForward ==
  RoundTripDone =>
    /\ \A i \in 1..3 : Within6(cur.d[i], orig.d[i])
    /\ Within6(cur.s[1], orig.s[1])
    /\ Within6(cur.s[3], orig.s[3])
    /\ Within6(cur.s[2], RAbs(orig.s[2]))

C2_Witness ==
  /\ RoundTripDone
  /\ orig.s[2].n > 0
  /\ orig.d[2].n # 0
  /\ RLess(R(1), RMul(ref.rkappa, orig.d[1]))
  /\ cur.s[2] = orig.s[2]
  /\ cur.d = orig.d

InverseDone == hist = <<"c2f", "f2c">>

\* the tangential and the normal coordinate of the Cartesian input about ref
OrigAlong ==
  RAdd(RMul(RSub(orig.c.x, ref.rx), Cos(ref.rtheta)),
       RMul(RSub(orig.c.y, ref.ry), Sin(ref.rtheta)))
OrigAcross ==
  RSub(RMul(Cos(ref.rtheta), RSub(orig.c.y, ref.ry)),
       RMul(Sin(ref.rtheta), RSub(orig.c.x, ref.rx)))
OnNormal == OrigAlong.n = 0
\* (1 - rkappa * d0) * cos(theta - rtheta) of the Cartesian input
OrigFacing ==
  RMul(RSub(R(1), RMul(ref.rkappa, OrigAcross)), Cos(AngleSub(orig.c.theta, ref.rtheta)))
Opposite(a, b) == a.c = RNeg(b.c) /\ a.s = RNeg(b.s)

\* C3, as claimed: for a Cartesian state on the normal through ref,
\* Cartesian -> Frenet -> Cartesian returns x, y, the heading modulo 2*pi,
\* the curvature, the velocity and the acceleration, for either sign of v
\* and any heading difference off the poles.
C3_InverseAnyHeading ==
  (InverseDone /\ OnNormal) =>
    /\ Within6(cur.out.x, orig.c.x)
    /\ Within6(cur.out.y, orig.c.y)
    /\ SameDirection(cur.out.theta, orig.c.theta)
    /\ Within6(cur.out.kappa, orig.c.kappa)
    /\ Within6(cur.out.v, orig.c.v)
    /\ Within6(cur.out.a, orig.c.a)

\* C3, amended: for a Cartesian state on the normal through ref,
\* Cartesian -> Frenet -> Cartesian returns x and y, and |v| for the velocity;
\* it returns the heading modulo 2*pi, the curvature and the acceleration when
\* (1 - rkappa * d0) * cos(theta - rtheta) > 0, and the opposite heading, the
\* negated curvature and the negated acceleration when that product is negative.
C3_InverseForwardFacing ==
  (InverseDone /\ OnNormal) =>
    /\ status = "ok"
    /\ Within6(cur.out.x, orig.c.x)
    /\ Within6(cur.out.y, orig.c.y)
    /\ Within6(cur.out.v, RAbs(orig.c.v))
    /\ OrigFacing.n > 0 =>
         /\ SameDirection(cur.out.theta, orig.c.theta)
         /\ Within6(cur.out.kappa, orig.c.kappa)
         /\ Within6(cur.out.a, orig.c.a)
    /\ OrigFacing.n < 0 =>
         /\ Opposite(cur.out.theta, orig.c.theta)
         /\ Within6(cur.out.kappa, RNeg(orig.c.kappa))
         /\ Within6(cur.out.a, RNeg(orig.c.a))

C3_Witness ==
  /\ InverseDone
  /\ OnNormal
  /\ OrigAcross.n # 0
  /\ OrigFacing.n > 0
  /\ orig.c.v.n > 0
  /\ orig.c.kappa.n # 0
  /\ orig.c.theta.w # 0
  /\ cur.out.kappa = orig.c.kappa
  /\ cur.out.v = orig.c.v
  /\ cur.out.a = orig.c.a

\* C9, as claimed: d0 is the signed perpendicular distance of the Cartesian
\* point from the reference line, cos(rtheta) * dy - sin(rtheta) * dx, for
\* every point.
C9_PerpendicularEverywhere ==
  hist = <<"c2f">> => cur.d[1] = OrigAcross

\* C9, amended: |d0| is the distance of the Cartesian point from the reference
\* point, d0 has the sign of cos(rtheta) * dy - sin(rtheta) * dx and is not
\* negative when that cross product is zero; d0 is the signed perpendicular
\* distance when the point lies on the normal through ref.
C9_SignedDistance ==
  hist = <<"c2f">> =>
    /\ RSq(cur.d[1]) =
         RAdd(RSq(RSub(orig.c.x, ref.rx)), RSq(RSub(orig.c.y, ref.ry)))
    /\ OrigAcross.n > 0 => cur.d[1].n > 0
    /\ OrigAcross.n < 0 => cur.d[1].n < 0
    /\ OrigAcross.n = 0 => cur.d[1].n >= 0
    /\ OnNormal => cur.d[1] = OrigAcross

C9_Witness ==
  /\ hist = <<"c2f">>
  /\ OnNormal
  /\ OrigAcross.n < 0
  /\ cur.d[1] = OrigAcross

\* ------------------------------------------------------------------------
\* a caller of the Calculate* helpers
\* ------------------------------------------------------------------------
KappaInputs ==
  {a \in [rkappa : {R(0), Rat(1, 2), R(1)}, rdkappa : {R(0), R(1)},
          l : {R(0), R(1), R(-1), Rat(19999, 20000)},
          dl : {R(0), Rat(3, 4), Rat(1, 1000), Rat(1, 20000)},
          ddl : {R(0), R(1)}] : KappaDefined(a)}

HelperInit == ConvIdle /\ HelperIdle /\ ConcIdle /\ RsIdle

CalculateKappaCall ==
  /\ helper.fn = "none"
  /\ \E a \in KappaInputs :
       helper' = [fn |-> "CalculateKappa", args |-> a,
                  result |-> CalculateKappa(a.rkappa, a.rdkappa, a.l, a.dl, a.ddl)]
  /\ UNCHANGED <<convVars, concVars, rsVars>>

CalculateThetaCall ==
  /\ helper.fn = "none"
  /\ \E rtheta \in RefDirections, rkappa \in {R(0), Rat(1, 2)}, l \in {R(0), R(4)},
        dl \in {R(0), Rat(3, 4), Rat(-4, 3)} :
       /\ Atan2Defined(dl, RSub(R(1), RMul(l, rkappa)))
       /\ helper' = [fn |-> "CalculateTheta",
                     args |-> [rtheta |-> rtheta, rkappa |-> rkappa, l |-> l, dl |-> dl],
                     result |-> CalculateTheta(rtheta, rkappa, l, dl)]
  /\ UNCHANGED <<convVars, concVars, rsVars>>

CalculateCartesianPointCall ==
  /\ helper.fn = "none"
  /\ \E rtheta \in RefDirections, l \in {R(0), R(1), R(-5)} :
       helper' = [fn |-> "CalculateCartesianPoint",
                  args |-> [rtheta |-> rtheta, rpoint |-> <<R(1), R(-2)>>, l |-> l],
                  result |-> CalculateCartesianPoint(rtheta, <<R(1), R(-2)>>, l)]
  /\ UNCHANGED <<convVars, concVars, rsVars>>

CalculateLateralDerivativeCall ==
  /\ helper.fn = "none"
  /\ \E rtheta \in RefDirections, h \in HeadingOffsets, l \in {R(0), R(4)},
        rkappa \in {R(0), Rat(1, 2)} :
       helper' = [fn |-> "CalculateLateralDerivative",
                  args |-> [rtheta |-> rtheta, theta |-> AngleAdd(rtheta, h), l |-> l,
                            rkappa |-> rkappa],
                  result |-> CalculateLateralDerivative(rtheta, AngleAdd(rtheta, h), l,
                                                        rkappa)]
  /\ UNCHANGED <<convVars, concVars, rsVars>>

CalculateSecondOrderLateralDerivativeCall ==
  /\ helper.fn = "none"
  /\ \E rtheta \in RefDirections, h \in HeadingOffsets, l \in {R(0), R(4)},
        rkappa \in {R(0), Rat(1, 2)}, kappa \in {R(0), Rat(1, 3)},
        rdkappa \in {R(0), Rat(1, 4)} :
       helper' = [fn |-> "CalculateSecondOrderLateralDerivative",
                  args |-> [rtheta |-> rtheta, theta |-> AngleAdd(rtheta, h),
                            rkappa |-> rkappa, kappa |-> kappa, rdkappa |-> rdkappa,
                            l |-> l],
                  result |-> CalculateSecondOrderLateralDerivative(
                               rtheta, AngleAdd(rtheta, h), rkappa, kappa, rdkappa, l)]
  /\ UNCHANGED <<convVars, concVars, rsVars>>

HelperNext ==
  \/ CalculateKappaCall
  \/ CalculateThetaCall
  \/ CalculateCartesianPointCall
  \/ CalculateLateralDerivativeCall
  \/ CalculateSecondOrderLateralDerivativeCall
SpecHelper == HelperInit /\ [][HelperNext]_vars

\* ------------------------------------------------------------------------
\* claims about the helpers
\* ------------------------------------------------------------------------
Tol8 == Rat(1, 100000000)
KappaCalled == helper.fn = "CalculateKappa"
\* dl^2 + (1 - l*rkappa)^2 of the call made
CalledDenominator ==
  RAdd(RSq(helper.args.dl),
       RSq(RSub(R(1), RMul(helper.args.l, helper.args.rkappa))))
\* rkappa*(1 - l*rkappa)^2 + ddl*(1 - l*rkappa) + l*dl*rdkappa + 2*dl^2*rkappa,
\* the numerator of the call made with its terms collected
CalledNumerator ==
  LET a == helper.args
      w == RSub(R(1), RMul(a.l, a.rkappa))
  IN  RAdd(RAdd(RMul(a.rkappa, RSq(w)), RMul(a.ddl, w)),
           RAdd(RMul(RMul(a.l, a.dl), a.rdkappa),
                RMul(R(2), RMul(RSq(a.dl), a.rkappa))))

\* C8: CalculateKappa returns exactly 0 whenever its denominator
\* dl^2 + (1 - l*rkappa)^2 is below 1e-8 in magnitude, whatever rkappa, rdkappa
\* and ddl are; otherwise it returns numerator / denominator^1.5.
C8_KappaCarveOut ==
  KappaCalled =>
    IF RLess(RAbs(CalledDenominator), Tol8)
    THEN helper.result = R(0)
    ELSE RMul(helper.result, RMul(CalledDenominator, RSqrt(CalledDenominator)))
           = CalledNumerator

C8_Witness ==
  /\ KappaCalled
  /\ CalledDenominator.n > 0
  /\ RLess(CalledDenominator, Tol8)
  /\ helper.args.ddl.n # 0
  /\ helper.args.rdkappa.n # 0
  /\ helper.result = R(0)

\* ------------------------------------------------------------------------
\* converter calls running concurrently
\* ------------------------------------------------------------------------
Procs == {1, 2}

\* one activation record for all calls: the automatic variables made static
FrameOf_Static(p) == 1

\* the activation record of call p: the automatic variables of a call are its own
FrameOf(p) == p

Blocks(fn) ==
  CASE fn = "cartesian_to_frenet" -> C2FBlocks
    [] fn = "frenet_to_cartesian" -> F2CBlocks
    [] fn = "CalculateKappa" -> KappaBlocks
Block(fn, k, a, st) ==
  CASE fn = "cartesian_to_frenet" -> C2FBlock(k, a, st)
    [] fn = "frenet_to_cartesian" -> F2CBlock(k, a, st)
    [] fn = "CalculateKappa" -> KappaBlock(k, a, st)

ConcRefA ==
  [rs |-> R(3), rx |-> R(1), ry |-> R(-2), rtheta |-> Angle(Rat(3, 5), Rat(4, 5), 0),
   rkappa |-> Rat(1, 2), rdkappa |-> Rat(1, 4)]
ConcRefB ==
  [rs |-> R(5), rx |-> R(0), ry |-> R(2), rtheta |-> Angle(R(-1), R(0), 0),
   rkappa |-> R(0), rdkappa |-> R(0)]
ConcCalls ==
  {[fn |-> "cartesian_to_frenet",
    a |-> C2FArgs(ConcRefA,
                  [x |-> PointAt(ConcRefA, R(0), R(4)).x,
                   y |-> PointAt(ConcRefA, R(0), R(4)).y,
                   theta |-> AngleAdd(ConcRefA.rtheta, Angle(Rat(4, 5), Rat(-3, 5), 0)),
                   kappa |-> Rat(1, 3), v |-> R(2), a |-> R(1)])],
   [fn |-> "cartesian_to_frenet",
    a |-> C2FArgs(ConcRefB,
                  [x |-> PointAt(ConcRefB, R(3), R(-4)).x,
                   y |-> PointAt(ConcRefB, R(3), R(-4)).y,
                   theta |-> AngleAdd(ConcRefB.rtheta, Angle(Rat(3, 5), Rat(4, 5), 0)),
                   kappa |-> R(0), v |-> R(1), a |-> R(0)])],
   [fn |-> "frenet_to_cartesian",
    a |-> F2CArgs(ConcRefA, <<R(3), R(2), R(1)>>, <<R(4), Rat(3, 4), R(1)>>)],
   [fn |-> "frenet_to_cartesian",
    a |-> F2CArgs(ConcRefB, <<R(5), R(1), R(0)>>, <<R(-1), Rat(-4, 3), R(0)>>)],
   [fn |-> "CalculateKappa",
    a |-> [rkappa |-> R(1), rdkappa |-> R(1), l |-> R(1), dl |-> R(0), ddl |-> R(1)]],
   [fn |-> "CalculateKappa",
    a |-> [rkappa |-> Rat(1, 2), rdkappa |-> R(1), l |-> R(-1), dl |-> R(2),
           ddl |-> R(1)]]}

\* the output locations of a call, apart from its activation record
Outputs(st) == [s |-> st.s, d |-> st.d, out |-> st.out, wr |-> st.wr, ret |-> st.ret]
CallState(fr, o) ==
  [fr |-> fr, s |-> o.s, d |-> o.d, out |-> o.out, wr |-> o.wr, ret |-> o.ret]

ConcInit ==
  /\ ConvIdle
  /\ HelperIdle
  /\ RsIdle
  /\ cargs \in [Procs -> ConcCalls]
  /\ cpc = [p \in Procs |-> 0]
  /\ frames = [p \in Procs |-> ZeroFrame]
  /\ obuf = [p \in Procs |-> Outputs(FreshCall)]

\* call p executes its next statements, up to and with the next write of an
\* output
Step(p) ==
  /\ cpc[p] < Blocks(cargs[p].fn)
  /\ LET st == Block(cargs[p].fn, cpc[p] + 1, cargs[p].a,
                     CallState(frames[FrameOf(p)], obuf[p]))
     IN  /\ frames' = [frames EXCEPT ![FrameOf(p)] = st.fr]
         /\ obuf' = [obuf EXCEPT ![p] = Outputs(st)]
  /\ cpc' = [cpc EXCEPT ![p] = cpc[p] + 1]
  /\ UNCHANGED <<cargs, convVars, helperVars, rsVars>>

ConcNext == \E p \in Procs : Step(p)
SpecConc == ConcInit /\ [][ConcNext]_vars

\* ------------------------------------------------------------------------
\* claims about concurrent calls
\* ------------------------------------------------------------------------
\* the outputs of call c run alone, after its first k statements
RECURSIVE AloneAfter(_, _)
AloneAfter(c, k) ==
  IF k = 0 THEN FreshCall ELSE Block(c.fn, k, c.a, AloneAfter(c, k - 1))

\* the result of call c run alone, by the function called
AloneResult(c) ==
  CASE c.fn = "cartesian_to_frenet" -> Outputs(cartesian_to_frenet(c.a, FreshCall))
    [] c.fn = "frenet_to_cartesian" -> Outputs(frenet_to_cartesian(c.a, FreshCall))
    [] c.fn = "CalculateKappa" ->
         [Outputs(FreshCall) EXCEPT
            !.ret = CalculateKappa(c.a.rkappa, c.a.rdkappa, c.a.l, c.a.dl, c.a.ddl),
            !.wr = {"ret"}]

Gamma == Angle(Rat(4, 5), Rat(3, 5), 0)
\* gamma = 0.6435..: bounds that decide comparisons of a + b * gamma
GammaLo == Rat(16, 25)
GammaHi == Rat(13, 20)

G(a, b) == [a |-> a, b |-> b]
GSub(p, q) == G(RSub(p.a, q.a), RSub(p.b, q.b))
RMax(a, b) == IF RLess(a, b) THEN b ELSE a
RMin(a, b) == IF RLess(a, b) THEN a ELSE b
\* the greatest and the least value a + b * gamma + e * gamma^2 can have
QuadUpper(a, b, e) ==
  RAdd(a, RAdd(RMax(RMul(b, GammaLo), RMul(b, GammaHi)),
               RMax(RMul(e, RSq(GammaLo)), RMul(e, RSq(GammaHi)))))
QuadLower(a, b, e) ==
  RAdd(a, RAdd(RMin(RMul(b, GammaLo), RMul(b, GammaHi)),
               RMin(RMul(e, RSq(GammaLo)), RMul(e, RSq(GammaHi)))))

RECURSIVE AngleTimes(_, _)
AngleTimes(a, k) ==
  IF k = 0 THEN ZeroAngle
  ELSE IF k < 0 THEN AngleNeg(AngleTimes(a, -k))
  ELSE AngleAdd(AngleTimes(a, k - 1), a)

Pose(x, y, phi) == [x |-> x, y |-> y, phi |-> phi]
Seg(motion, forward, units) == [motion |-> motion, forward |-> forward, units |-> units]

\* the step of the sampler, in units of gamma * radius
StepUnits == 2

\* the pose u units into segment sg that starts at pose p: the unicycle model
Advance(p, sg, u, radius) ==
  LET su == IF sg.forward THEN u ELSE -u
      turn == AngleTimes(Gamma, su)
      phiL == AngleAdd(p.phi, turn)
      phiR == AngleSub(p.phi, turn)
  IN  CASE sg.motion = "S" ->
             Pose(G(p.x.a, RAdd(p.x.b, RMul(RMul(R(su), radius), Cos(p.phi)))),
                  G(p.y.a, RAdd(p.y.b, RMul(RMul(R(su), radius), Sin(p.phi)))),
                  p.phi)
        [] sg.motion = "L" ->
             Pose(G(RAdd(p.x.a, RMul(radius, RSub(Sin(phiL), Sin(p.phi)))), p.x.b),
                  G(RSub(p.y.a, RMul(radius, RSub(Cos(phiL), Cos(p.phi)))), p.y.b),
                  NormalizeAngle(phiL))
        [] sg.motion = "R" ->
             Pose(G(RSub(p.x.a, RMul(radius, RSub(Sin(phiR), Sin(p.phi)))), p.x.b),
                  G(RAdd(p.y.a, RMul(radius, RSub(Cos(phiR), Cos(p.phi)))), p.y.b),
                  NormalizeAngle(phiR))

SegKappa(sg, radius) ==
  CASE sg.motion = "S" -> R(0)
    [] sg.motion = "L" -> RInv(radius)
    [] sg.motion = "R" -> RNeg(RInv(radius))

Sample(p, sg, radius) ==
  [x |-> p.x, y |-> p.y, phi |-> p.phi, gear |-> sg.forward, kappa |-> SegKappa(sg, radius)]
PoseOf(s) == Pose(s.x, s.y, s.phi)

\* the pose a path word ends at
RECURSIVE Endpoint(_, _, _)
Endpoint(p, word, radius) ==
  IF word = <<>> THEN p
  ELSE Endpoint(Advance(p, Head(word), Head(word).units, radius), Tail(word), radius)

RECURSIVE TotalLength(_)
TotalLength(word) == IF word = <<>> THEN 0 ELSE Head(word).units + TotalLength(Tail(word))

\* the samples of one segment with the steps left out: its end alone
SegmentSamples_EndsOnly(p, sg, radius) ==
  [j \in 1..(IF sg.units > 0 THEN 1 ELSE 0) |->
     Sample(Advance(p, sg, sg.units, radius), sg, radius)]

\* the samples of one segment after its first pose: every step, then its end
SamplesIn(units) == (units + StepUnits - 1) \div StepUnits
SegmentSamples(p, sg, radius) ==
  [j \in 1..SamplesIn(sg.units) |->
     Sample(Advance(p, sg, IF j * StepUnits < sg.units THEN j * StepUnits ELSE sg.units,
                    radius),
            sg, radius)]

\* the sampler with the first sample taken one step into the path
FirstSample_Late(start, word, radius) ==
  Sample(Advance(start, word[1], StepUnits, radius), word[1], radius)

\* the first sample: the start pose
FirstSample(start, word, radius) == Sample(start, word[1], radius)

RECURSIVE Walk(_, _, _)
Walk(samples, word, radius) ==
  IF word = <<>> THEN samples
  ELSE Walk(samples \o SegmentSamples(PoseOf(samples[Len(samples)]), Head(word), radius),
            Tail(word), radius)

\* the last sample forced to the end pose
ForceEnd(samples, end) ==
  [samples EXCEPT ![Len(samples)] = [@ EXCEPT !.x = end.x, !.y = end.y, !.phi = end.phi]]

\* PathSampler: Discretize(path, start, radius, step), with the end pose
Discretize(word, start, radius, end) ==
  ForceEnd(Walk(<<FirstSample(start, word, radius)>>, word, radius), end)

Infeasible == [feasible |-> FALSE, word |-> <<>>]
Feasible(word) == [feasible |-> TRUE, word |-> word]

\* the index of the shortest feasible entry from entry i on, best so far being
\* entry b (0: none); a later entry wins only when strictly shorter
RECURSIVE SelectFrom(_, _, _)
SelectFrom(cat, i, b) ==
  IF i > Len(cat) THEN b
  ELSE IF cat[i].feasible /\ (b = 0 \/ TotalLength(cat[i].word) < TotalLength(cat[b].word))
       THEN SelectFrom(cat, i + 1, i)
       ELSE SelectFrom(cat, i + 1, b)

\* the choice with a later entry winning a tie
ShortestPath_LastWins(cat) ==
  LET best == {i \in 1..Len(cat) :
                 /\ cat[i].feasible
                 /\ \A j \in 1..Len(cat) :
                      cat[j].feasible => TotalLength(cat[i].word) <= TotalLength(cat[j].word)}
  IN  IF best = {} THEN 0 ELSE CHOOSE i \in best : \A j \in best : j <= i

\* ReedsSheppSolver: ShortestPath, as the index of the entry chosen, 0 for
\* NoFeasiblePath
ShortestPath(cat) == SelectFrom(cat, 1, 0)

\* ------------------------------------------------------------------------
\* TEST_F(reeds_shepp, ...): ShortestRSP, then check()
\* ------------------------------------------------------------------------
\* the (family, transform) combinations of the catalog
NumCombos == 3

StartPoses ==
  {Pose(G(R(0), R(0)), G(R(0), R(0)), Angle(R(1), R(0), 0)),
   Pose(G(R(1), R(0)), G(R(-2), R(0)), Angle(Rat(3, 5), Rat(4, 5), 0))}
Radii == {R(1), R(2)}

BaseWords ==
  {<<Seg("L", TRUE, 2), Seg("S", TRUE, 3), Seg("R", TRUE, 1)>>,
   <<Seg("S", TRUE, 1)>>,
   <<Seg("R", FALSE, 3)>>,
   <<Seg("L", TRUE, 1), Seg("R", FALSE, 2), Seg("L", TRUE, 1)>>,
   <<Seg("L", TRUE, 2), Seg("S", TRUE, 0), Seg("R", TRUE, 2)>>,
   <<Seg("L", TRUE, 0), Seg("S", TRUE, 0), Seg("L", TRUE, 0)>>}

\* words between the same two poses as word w: w, w with its first segment
\* overshot by a unit and driven back, w with its first segment in two pieces
Overshoot(w) ==
  <<Seg(w[1].motion, w[1].forward, w[1].units + 1),
    Seg(w[1].motion, ~w[1].forward, 1)>> \o Tail(w)
SplitFirst(w) ==
  IF w[1].units < 2 THEN w
  ELSE <<Seg(w[1].motion, w[1].forward, 1),
         Seg(w[1].motion, w[1].forward, w[1].units - 1)>> \o Tail(w)
Variants(w) == {w, Overshoot(w), SplitFirst(w)}

RsInit ==
  /\ ConvIdle /\ HelperIdle /\ ConcIdle
  /\ rsStart \in StartPoses
  /\ rsRadius \in Radii
  /\ \E base \in BaseWords :
       /\ rsEnd = Endpoint(rsStart, base, rsRadius)
       /\ catalog \in [1..NumCombos -> {Infeasible} \cup {Feasible(w) : w \in Variants(base)}]
  /\ tpc = "solve"
  /\ rsOk = FALSE
  /\ chosen = 0
  /\ optimal_path = <<>>
  /\ logged = FALSE
  /\ validated = {}
  /\ idx = 0
  /\ verdict = "running"

\* line 80: reedshepp_test->ShortestRSP(start_node, end_node, &optimal_path)
ShortestRSPCall ==
  /\ tpc = "solve"
  /\ chosen' = ShortestPath(catalog)
  /\ rsOk' = (chosen' # 0)
  /\ optimal_path' =
       IF chosen' = 0 THEN <<>>
       ELSE Discretize(catalog[chosen'].word, rsStart, rsRadius, rsEnd)
  /\ tpc' = IF chosen' = 0 THEN "log" ELSE "check_front"
  /\ UNCHANGED <<rsInputs, logged, validated, idx, verdict, convVars, helperVars, concVars>>

\* line 81: AINFO << "generating short RSP not successful"; the test goes on
LogFailure ==
  /\ tpc = "log"
  /\ logged' = TRUE
  /\ tpc' = "check_front"
  /\ UNCHANGED <<rsInputs, rsOk, chosen, optimal_path, validated, idx, verdict,
                 convVars, helperVars, concVars>>

CheckTolerance == Rat(1, 100)
\* cos(0.01) = 0.99995..
CosCheckTolerance == Rat(19999, 20000)

\* what ASSERT_LT(a - b, 0.01) can find for coordinates a, b
LessOutcomes(a, b) ==
  LET dd == GSub(a, b)
  IN  IF RLess(QuadUpper(dd.a, dd.b, R(0)), CheckTolerance) THEN {"pass"}
      ELSE IF RLeq(CheckTolerance, QuadLower(dd.a, dd.b, R(0))) THEN {"fail"}
      ELSE {"pass", "fail"}
\* what ASSERT_LT(a - b, 0.01) finds for headings a, b
AngleLessOutcomes(a, b) ==
  LET dd == AngleSub(a, b)
  IN  IF dd.w < 0 \/ (dd.w = 0 /\ (dd.s.n < 0 \/ RLess(CosCheckTolerance, dd.c)))
      THEN {"pass"} ELSE {"fail"}
\* what three assertions in a row find: the first failure ends check()
AllPass(o1, o2, o3) ==
  {IF r1 = "pass" /\ r2 = "pass" /\ r3 = "pass" THEN "pass" ELSE "fail" :
     r1 \in o1, r2 \in o2, r3 \in o3}
\* front() and back() of an empty vector: undefined behaviour
UndefinedOutcomes == {"pass", "fail", "crash"}

StartPoseOutcomes ==
  IF optimal_path = <<>> THEN UndefinedOutcomes
  ELSE AllPass(LessOutcomes(rsStart.x, optimal_path[1].x),
               LessOutcomes(rsStart.y, optimal_path[1].y),
               AngleLessOutcomes(rsStart.phi, optimal_path[1].phi))
EndPoseOutcomes ==
  IF optimal_path = <<>> THEN UndefinedOutcomes
  ELSE AllPass(LessOutcomes(rsEnd.x, optimal_path[Len(optimal_path)].x),
               LessOutcomes(rsEnd.y, optimal_path[Len(optimal_path)].y),
               AngleLessOutcomes(rsEnd.phi, optimal_path[Len(optimal_path)].phi))

\* where check() goes after an assertion: on, or out of check()
After(o, next) == IF o = "pass" THEN next ELSE "done"
VerdictAfter(o) ==
  IF o = "pass" THEN verdict ELSE IF o = "fail" THEN "failed" ELSE "crashed"

\* lines 46-48 of check(), called at line 83 whatever ShortestRSP returned
CheckFront ==
  /\ tpc = "check_front"
  /\ \E o \in StartPoseOutcomes :
       /\ tpc' = After(o, "check_back")
       /\ verdict' = VerdictAfter(o)
  /\ validated' = validated \cup {"front"}
  /\ UNCHANGED <<rsInputs, rsOk, chosen, optimal_path, logged, idx,
                 convVars, helperVars, concVars>>

\* lines 49-51
CheckBack ==
  /\ tpc = "check_back"
  /\ \E o \in EndPoseOutcomes :
       /\ tpc' = After(o, "check_size")
       /\ verdict' = VerdictAfter(o)
  /\ validated' = validated \cup {"back"}
  /\ UNCHANGED <<rsInputs, rsOk, chosen, optimal_path, logged, idx,
                 convVars, helperVars, concVars>>

\* line 52: ASSERT_GT(optimal_path->x.size(), 1)
CheckSize ==
  /\ tpc = "check_size"
  /\ tpc' = IF Len(optimal_path) > 1 THEN "check_interval" ELSE "done"
  /\ verdict' = IF Len(optimal_path) > 1 THEN verdict ELSE "failed"
  /\ idx' = 1
  /\ validated' = validated \cup {"size"}
  /\ UNCHANGED <<rsInputs, rsOk, chosen, optimal_path, logged,
                 convVars, helperVars, concVars>>

\* interval^2 - gold_interval^2 of samples p and q as a + b*gamma + e*gamma^2,
\* gold_interval^2 being 2 * step_size^2 = 2 * (StepUnits * gamma * radius)^2
SpacingA(p, q) == RAdd(RSq(RSub(q.x.a, p.x.a)), RSq(RSub(q.y.a, p.y.a)))
SpacingB(p, q) ==
  RMul(R(2), RAdd(RMul(RSub(q.x.a, p.x.a), RSub(q.x.b, p.x.b)),
                  RMul(RSub(q.y.a, p.y.a), RSub(q.y.b, p.y.b))))
SpacingE(p, q, radius) ==
  RSub(RAdd(RSq(RSub(q.x.b, p.x.b)), RSq(RSub(q.y.b, p.y.b))),
       RMul(R(2), RSq(RMul(R(StepUnits), radius))))
\* what ASSERT_LT(interval, gold_interval) can find for samples p and q
IntervalOutcomes(p, q, radius) ==
  IF QuadUpper(SpacingA(p, q), SpacingB(p, q), SpacingE(p, q, radius)).n < 0 THEN {"pass"}
  ELSE IF QuadLower(SpacingA(p, q), SpacingB(p, q), SpacingE(p, q, radius)).n >= 0
       THEN {"fail"}
  ELSE {"pass", "fail"}

\* lines 53-65: one turn of the loop, or its end
CheckInterval ==
  /\ tpc = "check_interval"
  /\ IF idx < Len(optimal_path)
     THEN \E o \in IntervalOutcomes(optimal_path[idx], optimal_path[idx + 1], rsRadius) :
            /\ tpc' = After(o, "check_interval")
            /\ verdict' = VerdictAfter(o)
            /\ idx' = idx + 1
            /\ validated' = validated \cup {"interval"}
     ELSE /\ tpc' = "done"
          /\ verdict' = "passed"
          /\ UNCHANGED <<idx, validated>>
  /\ UNCHANGED <<rsInputs, rsOk, chosen, optimal_path, logged,
                 convVars, helperVars, concVars>>

RsNext ==
  \/ ShortestRSPCall
  \/ LogFailure
  \/ CheckFront
  \/ CheckBack
  \/ CheckSize
  \/ CheckInterval
SpecRS == RsInit /\ [][RsNext]_vars

\* ------------------------------------------------------------------------
\* claims about the Reeds-Shepp solver, sampler and test
\* ------------------------------------------------------------------------
Solved == tpc # "solve" /\ rsOk
Tol2 == Rat(1, 100)
\* a bound above cos(0.01) = 0.9999500004..
CosTol2 == Rat(99996, 100000)
\* |a - b| < 0.01 for coordinates and for headings
CoordNear(a, b) ==
  /\ RLess(QuadUpper(GSub(a, b).a, GSub(a, b).b, R(0)), Tol2)
  /\ RLess(RNeg(Tol2), QuadLower(GSub(a, b).a, GSub(a, b).b, R(0)))
HeadingNear(a, b) == AngleSub(a, b).w = 0 /\ RLess(CosTol2, AngleSub(a, b).c)
PoseNear(s, p) == CoordNear(s.x, p.x) /\ CoordNear(s.y, p.y) /\ HeadingNear(s.phi, p.phi)
LastSample == optimal_path[Len(optimal_path)]
ChosenWord == catalog[chosen].word

\* C4: when ShortestPath succeeds the sampled path starts within 0.01 of the
\* start pose and ends within 0.01 of the end pose, in x, in y and in heading,
\* each as an absolute difference.
C4_EndpointsNearPoses ==
  Solved =>
    /\ optimal_path # <<>>
    /\ PoseNear(optimal_path[1], rsStart)
    /\ PoseNear(LastSample, rsEnd)

C4_Witness ==
  /\ Solved
  /\ Len(optimal_path) >= 3
  /\ rsStart # rsEnd
  /\ PoseOf(optimal_path[1]) = rsStart
  /\ PoseOf(LastSample) = rsEnd

\* the spacing of samples i and i + 1 does not exceed step_size * sqrt(2)
SpacingKept(i) ==
  RLeq(QuadUpper(SpacingA(optimal_path[i], optimal_path[i + 1]),
                 SpacingB(optimal_path[i], optimal_path[i + 1]),
                 SpacingE(optimal_path[i], optimal_path[i + 1], rsRadius)),
       R(0))

C6_FailureSkipsValidation ==
  (tpc # "solve" /\ ~rsOk) => (optimal_path = <<>> /\ validated = {})

FeasibleEntries == {i \in 1..Len(catalog) : catalog[i].feasible}

\* C7: ShortestPath returns a feasible entry of least total length, the first
\* such entry in catalog order, and NoFeasiblePath only when no entry is
\* feasible.
C7_ShortestFirst ==
  tpc # "solve" =>
    IF FeasibleEntries = {} THEN ~rsOk /\ chosen = 0
    ELSE /\ rsOk
         /\ chosen \in FeasibleEntries
         /\ \A j \in FeasibleEntries :
              /\ TotalLength(ChosenWord) <= TotalLength(catalog[j].word)
              /\ j < chosen => TotalLength(ChosenWord) < TotalLength(catalog[j].word)

C7_Witness ==
  /\ Solved
  /\ chosen = 2
  /\ ~catalog[1].feasible
  /\ catalog[3].feasible
  /\ catalog[3].word # ChosenWord
  /\ TotalLength(catalog[3].word) = TotalLength(ChosenWord)
====
